---- MODULE Spec2Model ----
(***************************************************************************)
(* OAuth2 client-credentials token cache (OAuth2Manager), the              *)
(* authenticated request wrapper (make_secure_request) and the accessors   *)
(* of ActivitiService of src/app.py.                                       *)
(*                                                                         *)
(* The module-level auth_manager is one shared object.  Callers are the    *)
(* request threads of the Flask server (app.run, line 306); every read or  *)
(* write of an attribute of auth_manager is one step of a thread, so the   *)
(* steps of different threads interleave the way the interpreter can       *)
(* interleave them (the source takes no lock).                             *)
(*   Spec     the threads call auth_manager.get_token() concurrently       *)
(*   SeqSpec  one caller, one call after the other, of get_token() or      *)
(*            make_secure_request()                                        *)
(*   ServiceSpec  one caller, one call after the other, of the accessors   *)
(*   LiveSpec     one caller that keeps calling get_token(), with fairness *)
(***************************************************************************)
EXTENDS Integers, FiniteSets, Sequences, TLC

(* ---------------- bounds of the model ---------------- *)
NThreads == 2          \* concurrent callers in Spec
MaxFetches == 3        \* provider requests issued in one behaviour
MaxTime == 61          \* last clock reading in SeqSpec and ServiceSpec
MaxTimeConc == 1       \* last clock reading in Spec and LiveSpec

Threads == 1..NThreads
SeqThreads == {1}

(* ---------------- program constants ---------------- *)
ExpiryBuffer == 60           \* "- 60" of line 51
DefaultExpiresIn == 3600     \* data.get("expires_in", 3600)

(* ---------------- values ---------------- *)
None == "None"
Tokens == {"tok1", "tok2"}              \* access_token strings the provider issues
ExpiresInValues == {60, 61, 120}        \* integer expires_in values the provider sends
StatusCodes == {200, 404, 500}          \* statuses of the resource server

\* Python truthiness of the stored token: `not self._access_token`
Falsy(tok) == tok = None \/ tok = ""

\* Response.raise_for_status(): raises HTTPError for 4xx and 5xx
RaisesForStatus(code) == code >= 400 /\ code < 600

(* A response of the identity provider to one requests.post.               *)
(*   kind "network"  the request raised (connection error, timeout)        *)
(*   kind "http"     a response arrived; status_code says whether it is ok *)
(*   body "badjson"  the body is not JSON                                  *)
(*   body "nokey"    JSON without access_token                             *)
(*   body "token"    JSON with access_token; ei_kind says what expires_in  *)
(*                   is: "absent", "int" (value in expires_in) or "str"    *)
(*                   (a JSON string, which cannot be added to the clock)   *)
Resp(kind, code, body, tok, eik, ei) ==
    [kind |-> kind, status_code |-> code, body |-> body,
     access_token |-> tok, ei_kind |-> eik, expires_in |-> ei]

NoResp == Resp("none", 0, "none", None, "absent", 0)

FailedResponses ==
    { Resp("network", 0, "none", None, "absent", 0),
      Resp("http", 500, "none", None, "absent", 0),
      Resp("http", 200, "badjson", None, "absent", 0),
      Resp("http", 200, "nokey", None, "absent", 0) }

TokenResponses ==
    { Resp("http", 200, "token", tok, "absent", 0) : tok \in Tokens }
    \cup { Resp("http", 200, "token", tok, "int", e) : tok \in Tokens, e \in ExpiresInValues }
    \cup { Resp("http", 200, "token", tok, "str", 0) : tok \in Tokens }

ProviderResponses == FailedResponses \cup TokenResponses

\* data.get("access_token") in place of data["access_token"]: no KeyError
FetchException_get(r) ==
    IF r.kind = "network" THEN "RequestException"
    ELSE IF r.status_code >= 400 /\ r.status_code < 600 THEN "RequestException"
    ELSE IF r.body = "badjson" THEN "RequestException"
    ELSE ""

\* lines 44-48: the exception raised before anything is stored, "" for none
FetchException(r) ==
    IF r.kind = "network" THEN "RequestException"
    ELSE IF RaisesForStatus(r.status_code) THEN "RequestException"
    ELSE IF r.body = "badjson" THEN "RequestException"
    ELSE IF r.body = "nokey" THEN "KeyError"
    ELSE ""

\* line 50: data.get("expires_in", 3600)
ExpiresIn(r) == IF r.ei_kind = "absent" THEN DefaultExpiresIn ELSE r.expires_in

\* the buffer forgotten
ComputeExpiry_nobuffer(t, e) == t + e

\* line 51: time.time() + expires_in - 60
ComputeExpiry(t, e) == t + e - ExpiryBuffer

\* the cache never trusted: every call refetches
Expired_always(t, expiry) == TRUE

\* `>` in place of `>=`
Expired_strict(t, expiry) == t > expiry

\* line 60, right operand: time.time() >= self._token_expiry
Expired(t, expiry) == t >= expiry

\* line 106: f"Bearer {token}"
Bearer(tok) == "Bearer " \o tok

\* the exception of get_token passed on as it is
AuthFailure_reraise(e) == e

\* lines 98-99: every exception of get_token is replaced by RuntimeError
AuthFailure(e) == "RuntimeError"

(* ---------------- headers ---------------- *)
EmptyHeaders == [n \in {} |-> ""]
SetHeader(h, name, value) ==
    [n \in DOMAIN h \cup {name} |-> IF n = name THEN value ELSE h[n]]

\* the headers argument: given = FALSE is headers=None
NoHeaders == [given |-> FALSE, map |-> EmptyHeaders]
HeaderArgs ==
    { NoHeaders,
      [given |-> TRUE, map |-> EmptyHeaders],
      [given |-> TRUE, map |-> ("Authorization" :> "Basic abc")],
      [given |-> TRUE, map |-> ("Content-Type" :> "text/plain")],
      [given |-> TRUE, map |-> ("content-type" :> "text/plain")] }

\* the payload argument: "none" is None, "empty" is {}, "dict" a non-empty dict
PayloadArgs == {"none", "empty", "dict"}
PayloadTruthy(p) == p = "dict"

\* headers.setdefault("Authorization", ...): a caller's value is kept
PrepareHeaders_setdefault(h, payload, tok) ==
    LET h1 == IF "Authorization" \in DOMAIN h THEN h
              ELSE SetHeader(h, "Authorization", Bearer(tok))
    IN  IF PayloadTruthy(payload) /\ "Content-Type" \notin DOMAIN h1
        THEN SetHeader(h1, "Content-Type", "application/json")
        ELSE h1

\* lines 102-110: the headers of the outbound request
PrepareHeaders(h, payload, tok) ==
    LET h1 == SetHeader(h, "Authorization", Bearer(tok))
    IN  IF PayloadTruthy(payload) /\ "Content-Type" \notin DOMAIN h1
        THEN SetHeader(h1, "Content-Type", "application/json")
        ELSE h1

(* ---------------- state ---------------- *)
VARIABLES
    access_token,   \* auth_manager._access_token
    token_expiry,   \* auth_manager._token_expiry
    now,            \* time.time()
    fetches,        \* provider requests issued so far (calls of requests.post, line 44)
    lastFetched,    \* access_token of the latest provider response that carried one
    tokenSrc,       \* number of the fetch that wrote access_token (0: constructor)
    expirySrc,      \* number of the fetch that wrote token_expiry (0: constructor)
    stored,         \* clock reading and expires_in that line 51 last used
    pc,             \* per thread: position in the code
    op,             \* per thread: entry point called: "get_token",
                    \* "make_secure_request" or the name of an accessor
    resp,           \* per thread: provider response inside _fetch_new_token
    fetchId,        \* per thread: number of the fetch of this call, 0 if it issued none
    pre,            \* per thread: the stored pair when the call began
    chk,            \* per thread: what line 60 found
    token,          \* per thread: local `token` of make_secure_request (line 97)
    result,         \* per thread: how the call ended
    args,           \* per thread: headers and payload arguments of make_secure_request
    callerHeaders,  \* per thread: the caller's headers mapping (the object passed in)
    sent            \* per thread: outbound resource request of this call

cache == <<access_token, token_expiry, tokenSrc, expirySrc, stored>>
env == <<now, fetches, lastFetched>>
locals == <<pc, op, resp, fetchId, pre, chk, token, result, args, callerHeaders, sent>>
vars == <<access_token, token_expiry, now, fetches, lastFetched, tokenSrc, expirySrc, stored,
          pc, op, resp, fetchId, pre, chk, token, result, args, callerHeaders, sent>>

\* result.value: what an ActivitiService accessor returned, "None" or "data"
NoResult == [kind |-> "none", exc |-> "", token |-> None, status_code |-> 0, value |-> ""]
Returned(tok) == [kind |-> "return", exc |-> "", token |-> tok, status_code |-> 0, value |-> ""]
Raised(e) == [kind |-> "raise", exc |-> e, token |-> None, status_code |-> 0, value |-> ""]
Responded(code) ==
    [kind |-> "return", exc |-> "", token |-> None, status_code |-> code, value |-> ""]
ReturnedValue(v) ==
    [kind |-> "return", exc |-> "", token |-> None, status_code |-> 0, value |-> v]

\* the accessors of ActivitiService
Accessors ==
    {"get_process_instance", "get_variables", "get_user_tasks", "get_subprocesses",
     "get_events"}

\* the body of a resource response as response.json() and the projection find
\* it: not JSON, a JSON array where an object is expected, or a JSON object
ResponseBodies == {"unparsable", "array", "object"}

\* response.json() and the projection onto display_keys: json() raises on a body
\* that is not JSON, .items() and .get() raise AttributeError on a list
ParseResult(body) ==
    IF body = "unparsable" THEN Raised("JSONDecodeError")
    ELSE IF body = "array" THEN Raised("AttributeError")
    ELSE ReturnedValue("data")

\* `except requests.RequestException` in place of `except Exception`
Handled_narrow(o, r) ==
    IF o \in Accessors /\ r.kind = "raise" /\ r.exc = "RequestException"
    THEN ReturnedValue(None)
    ELSE r

\* `except Exception as e: print(...); return None` around the body of every
\* accessor; a direct caller of make_secure_request gets the outcome as it is
Handled(o, r) ==
    IF o \in Accessors /\ r.kind = "raise"
    THEN ReturnedValue(None)
    ELSE r

\* chk.stale: "empty" (no token stored), "expired" (the clock had reached the stored
\* expiry), "no" (neither); chk.before: provider requests issued before the check
NoCheck == [stale |-> "unknown", expirySrc |-> 0, before |-> 0]
NothingStored == [at |-> 0, ei_kind |-> "none", expires_in |-> 0]
NoArgs == [headers |-> NoHeaders, payload |-> "none"]
NoOutcome == [kind |-> "none", status_code |-> 0, body |-> "unread"]
NotSent == [count |-> 0, headers |-> EmptyHeaders, latest |-> None, outcome |-> NoOutcome]

\* line 114: what requests.request does: it raises a transport error
\* (requests.RequestException) or hands back a response with some status code
TransportOutcomes ==
    {[kind |-> "error", status_code |-> 0, body |-> "unread"]}
        \cup {[kind |-> "response", status_code |-> code, body |-> "unread"] :
                 code \in StatusCodes}

\* line 124 in force: response.raise_for_status() raises for 4xx and 5xx
RequestResult_raise_for_status(outcome) ==
    IF outcome.kind = "error" \/ RaisesForStatus(outcome.status_code)
    THEN Raised("RequestException")
    ELSE Responded(outcome.status_code)

\* lines 113-130: the response is returned whatever its status (line 124 is a
\* comment), a transport error is printed and re-raised
RequestResult(outcome) ==
    IF outcome.kind = "error"
    THEN Raised("RequestException")
    ELSE Responded(outcome.status_code)

\* OAuth2Manager.__init__ (lines 30-31) and the module-level auth_manager
Init ==
    /\ access_token = None
    /\ token_expiry = 0
    /\ now = 0
    /\ fetches = 0
    /\ lastFetched = None
    /\ tokenSrc = 0
    /\ expirySrc = 0
    /\ stored = NothingStored
    /\ pc = [t \in Threads |-> "idle"]
    /\ op = [t \in Threads |-> "none"]
    /\ resp = [t \in Threads |-> NoResp]
    /\ fetchId = [t \in Threads |-> 0]
    /\ pre = [t \in Threads |-> <<None, 0>>]
    /\ chk = [t \in Threads |-> NoCheck]
    /\ token = [t \in Threads |-> None]
    /\ result = [t \in Threads |-> NoResult]
    /\ args = [t \in Threads |-> NoArgs]
    /\ callerHeaders = [t \in Threads |-> NoHeaders]
    /\ sent = [t \in Threads |-> NotSent]

InFlight == {t \in Threads : pc[t] \notin {"idle", "done"}}

\* a thread enters a call; every call issues at most one fetch
Begin(t, o, a) ==
    /\ pc[t] \in {"idle", "done"}
    /\ fetches + Cardinality(InFlight) < MaxFetches
    /\ pc' = [pc EXCEPT ![t] = "check_token"]
    /\ op' = [op EXCEPT ![t] = o]
    /\ resp' = [resp EXCEPT ![t] = NoResp]
    /\ fetchId' = [fetchId EXCEPT ![t] = 0]
    /\ pre' = [pre EXCEPT ![t] = <<access_token, token_expiry>>]
    /\ chk' = [chk EXCEPT ![t] = NoCheck]
    /\ token' = [token EXCEPT ![t] = None]
    /\ result' = [result EXCEPT ![t] = NoResult]
    /\ args' = [args EXCEPT ![t] = a]
    /\ callerHeaders' = [callerHeaders EXCEPT ![t] = a.headers]
    /\ sent' = [sent EXCEPT ![t] = NotSent]
    /\ UNCHANGED <<cache, env>>

\* a caller invokes auth_manager.get_token()
call_get_token(t) == Begin(t, "get_token", NoArgs)

\* a route calls an accessor of ActivitiService; every accessor calls
\* make_secure_request(method="GET", endpoint=...) without payload and headers
call_accessor(t) == \E a \in Accessors : Begin(t, a, NoArgs)

\* a caller invokes make_secure_request(method, endpoint, payload=, headers=)
call_make_secure_request(t) ==
    \E h \in HeaderArgs, p \in PayloadArgs :
        Begin(t, "make_secure_request", [headers |-> h, payload |-> p])

\* a failed fetch is attempted again instead of ending the call
get_token_raises_retry(t, e) ==
    /\ pc' = [pc EXCEPT ![t] = "post"]
    /\ result' = result

\* `except Exception: pass` at lines 98-99: the request goes out without a token
get_token_raises_swallowed(t, e) ==
    /\ pc' = [pc EXCEPT ![t] = IF op[t] = "get_token" THEN "done" ELSE "send"]
    /\ result' = [result EXCEPT ![t] = IF op[t] = "get_token" THEN Raised(e) ELSE @]

\* an exception e leaves get_token: it reaches the caller of get_token, or
\* lines 96-99 of make_secure_request turn it into the authentication failure,
\* which an accessor catches
get_token_raises(t, e) ==
    /\ pc' = [pc EXCEPT ![t] = "done"]
    /\ result' = [result EXCEPT ![t] =
                     IF op[t] = "get_token" THEN Raised(e)
                     ELSE Handled(op[t], Raised(AuthFailure(e)))]

\* the failure of an earlier fetch is remembered: on a cache that is still empty
\* the error is raised again without asking the provider
get_token_check_token_latched(t) ==
    /\ pc[t] = "check_token"
    /\ IF Falsy(access_token)
       THEN IF fetches > 0
            THEN get_token_raises(t, "RequestException")
            ELSE /\ pc' = [pc EXCEPT ![t] = "post"]
                 /\ result' = result
       ELSE /\ pc' = [pc EXCEPT ![t] = "check_expiry"]
            /\ result' = result
    /\ chk' = [chk EXCEPT ![t] = IF access_token = None
                                  THEN [stale |-> "empty", expirySrc |-> 0, before |-> fetches]
                                  ELSE @]
    /\ UNCHANGED <<cache, env, op, resp, fetchId, pre, token, args, callerHeaders, sent>>

\* line 60, left operand: `not self._access_token`
get_token_check_token(t) ==
    /\ pc[t] = "check_token"
    /\ IF Falsy(access_token)
       THEN /\ pc' = [pc EXCEPT ![t] = "post"]
       ELSE /\ pc' = [pc EXCEPT ![t] = "check_expiry"]
    /\ chk' = [chk EXCEPT ![t] = IF access_token = None
                                  THEN [stale |-> "empty", expirySrc |-> 0, before |-> fetches]
                                  ELSE @]
    /\ UNCHANGED <<cache, env, op, resp, fetchId, pre, token, result, args, callerHeaders, sent>>

\* line 60, right operand: `time.time() >= self._token_expiry`
get_token_check_expiry(t) ==
    /\ pc[t] = "check_expiry"
    /\ IF Expired(now, token_expiry)
       THEN /\ pc' = [pc EXCEPT ![t] = "post"]
       ELSE /\ pc' = [pc EXCEPT ![t] = "return"]
    /\ chk' = [chk EXCEPT ![t] = IF now >= token_expiry
                                  THEN [stale |-> "expired", expirySrc |-> 0, before |-> fetches]
                                  ELSE [stale |-> "no", expirySrc |-> expirySrc, before |-> fetches]]
    /\ UNCHANGED <<cache, env, op, resp, fetchId, pre, token, result, args, callerHeaders, sent>>

\* lines 44-48 and 54-56: the request to the provider, its response, and the
\* exceptions raised before anything is stored
fetch_new_token_post(t) ==
    /\ pc[t] = "post"
    /\ \E r \in ProviderResponses :
        /\ fetches' = fetches + 1
        /\ fetchId' = [fetchId EXCEPT ![t] = fetches + 1]
        /\ lastFetched' = IF FetchException(r) = "" THEN r.access_token ELSE lastFetched
        /\ resp' = [resp EXCEPT ![t] = r]
        /\ IF FetchException(r) # ""
           THEN get_token_raises(t, FetchException(r))
           ELSE /\ pc' = [pc EXCEPT ![t] = "store_token"]
                /\ result' = result
    /\ UNCHANGED <<cache, now, op, pre, chk, token, args, callerHeaders, sent>>

\* line 48: self._access_token = data["access_token"]
fetch_new_token_store_token(t) ==
    /\ pc[t] = "store_token"
    /\ access_token' = resp[t].access_token
    /\ tokenSrc' = fetchId[t]
    /\ pc' = [pc EXCEPT ![t] = "store_expiry"]
    /\ UNCHANGED <<token_expiry, expirySrc, stored, env, op, resp, fetchId, pre, chk, token, result,
                   args, callerHeaders, sent>>

\* lines 50-51: self._token_expiry = time.time() + expires_in - 60; adding a
\* string to the clock raises TypeError, which the except clause does not catch
fetch_new_token_store_expiry(t) ==
    /\ pc[t] = "store_expiry"
    /\ IF resp[t].ei_kind = "str"
       THEN /\ get_token_raises(t, "TypeError")
            /\ UNCHANGED <<token_expiry, expirySrc, stored>>
       ELSE /\ token_expiry' = ComputeExpiry(now, ExpiresIn(resp[t]))
            /\ expirySrc' = fetchId[t]
            /\ stored' = [at |-> now, ei_kind |-> resp[t].ei_kind,
                           expires_in |-> resp[t].expires_in]
            /\ pc' = [pc EXCEPT ![t] = "return"]
            /\ result' = result
    /\ UNCHANGED <<access_token, tokenSrc, env, op, resp, fetchId, pre, chk, token,
                   args, callerHeaders, sent>>

\* line 62: return self._access_token
get_token_return(t) ==
    /\ pc[t] = "return"
    /\ IF op[t] = "get_token"
       THEN /\ pc' = [pc EXCEPT ![t] = "done"]
            /\ token' = token
            /\ result' = [result EXCEPT ![t] = Returned(access_token)]
       ELSE /\ pc' = [pc EXCEPT ![t] = "send"]
            /\ token' = [token EXCEPT ![t] = access_token]
            /\ result' = result
    /\ UNCHANGED <<cache, env, op, resp, fetchId, pre, chk, args, callerHeaders, sent>>

\* lines 101-130: build the headers (in the caller's mapping when one was
\* passed), send the request, return the response or re-raise the transport
\* error; an accessor goes on to read the response, or catches the error
make_secure_request_send(t) ==
    /\ pc[t] = "send"
    /\ \E outcome \in TransportOutcomes :
         LET h == PrepareHeaders(args[t].headers.map, args[t].payload, token[t])
         IN  /\ sent' = [sent EXCEPT ![t] = [count |-> @.count + 1, headers |-> h,
                                              latest |-> lastFetched, outcome |-> outcome]]
             /\ callerHeaders' = [callerHeaders EXCEPT ![t] =
                                     IF @.given THEN [given |-> TRUE, map |-> h] ELSE @]
             /\ IF op[t] \in Accessors /\ RequestResult(outcome).kind = "return"
                THEN /\ pc' = [pc EXCEPT ![t] = "parse"]
                     /\ result' = result
                ELSE /\ pc' = [pc EXCEPT ![t] = "done"]
                     /\ result' = [result EXCEPT ![t] =
                                      Handled(op[t], RequestResult(outcome))]
    /\ token' = [token EXCEPT ![t] = None]
    /\ UNCHANGED <<cache, env, op, resp, fetchId, pre, chk, args>>

\* the rest of an accessor (lines 150-154 and alike): response.json(), the
\* projection onto display_keys, and `except Exception: return None`
accessor_parse(t) ==
    /\ pc[t] = "parse"
    /\ \E body \in ResponseBodies :
        /\ sent' = [sent EXCEPT ![t].outcome.body = body]
        /\ result' = [result EXCEPT ![t] = Handled(op[t], ParseResult(body))]
    /\ pc' = [pc EXCEPT ![t] = "done"]
    /\ UNCHANGED <<cache, env, op, resp, fetchId, pre, chk, token, args, callerHeaders>>

\* time.time() is read at the instants 0..MaxTimeConc, around a token's
\* effective expiry and up to MaxTime; between two steps it may advance by any amount
Instants == {i \in 0..MaxTime : i <= MaxTimeConc \/ i >= ExpiryBuffer - 1}

\* the clock advances
Tick(limit) ==
    /\ \E i \in Instants : i > now /\ i <= limit /\ now' = i
    /\ UNCHANGED <<cache, fetches, lastFetched, locals>>

get_token(t) ==
    \/ get_token_check_token(t)
    \/ get_token_check_expiry(t)
    \/ fetch_new_token_post(t)
    \/ fetch_new_token_store_token(t)
    \/ fetch_new_token_store_expiry(t)
    \/ get_token_return(t)

Next ==
    \/ \E t \in Threads : call_get_token(t)
    \/ \E t \in Threads : get_token(t)
    \/ Tick(MaxTimeConc)
Spec == Init /\ [][Next]_vars

SeqNext ==
    \/ \E t \in SeqThreads : call_get_token(t)
    \/ \E t \in SeqThreads : call_make_secure_request(t)
    \/ \E t \in SeqThreads : get_token(t)
    \/ \E t \in SeqThreads : make_secure_request_send(t)
    \/ Tick(MaxTime)
SeqSpec == Init /\ [][SeqNext]_vars

\* callers of get_token that keep calling: a call that has started runs to its
\* end, and a caller whose call is over calls again
LiveNext ==
    \/ \E t \in SeqThreads : call_get_token(t)
    \/ \E t \in SeqThreads : get_token(t)
    \/ Tick(MaxTimeConc)
LiveSpec ==
    /\ Init /\ [][LiveNext]_vars
    /\ WF_vars(\E t \in SeqThreads : get_token(t))
    /\ WF_vars(\E t \in SeqThreads : call_get_token(t))

\* the routes call the accessors of the one ActivitiService, one call at a time
ServiceNext ==
    \/ \E t \in SeqThreads : call_accessor(t)
    \/ \E t \in SeqThreads : get_token(t)
    \/ \E t \in SeqThreads : make_secure_request_send(t)
    \/ \E t \in SeqThreads : accessor_parse(t)
    \/ Tick(MaxTime)
ServiceSpec == Init /\ [][ServiceNext]_vars

(* ======================= properties ======================= *)

\* the stored token is inside its validity window
InWindow == ~Falsy(access_token) /\ now < token_expiry

\* thread t is inside _fetch_new_token
InFetch(t) == pc[t] \in {"post", "store_token", "store_expiry"}

\* the fetch of t's call has failed
FetchFailed(t) ==
    \/ resp[t] \in FailedResponses
    \/ resp[t].ei_kind = "str" /\ pc[t] = "done"

\* C1: sequential get_token calls inside one validity window: no provider request
\* has been issued since the fetch that opened the window (one fetch in total for
\* the window), no call is fetching, and every finished call has returned the
\* stored token, the access_token of that fetch.
C1_OneFetchPerWindow ==
    InWindow =>
        /\ fetches = expirySrc
        /\ tokenSrc = expirySrc
        /\ access_token = lastFetched
        /\ \A t \in Threads :
            /\ ~InFetch(t)
            /\ (pc[t] = "done" /\ op[t] = "get_token") =>
                   result[t] = Returned(lastFetched)

\* C1 witness: a later call in the window found the cache valid and returned the
\* cached token without a fetch
C1_Witness ==
    /\ InWindow
    /\ pc[1] = "done" /\ op[1] = "get_token"
    /\ chk[1].stale = "no" /\ fetchId[1] = 0
    /\ result[1] = Returned(access_token)
    /\ fetches = 1

\* C2: a get_token call that finds the clock at or past the stored expiry goes on
\* to fetch, issues exactly one provider request, and what it returns is the
\* access_token of that new response, not the token cached before.
C2_RefetchAfterExpiry ==
    \A t \in Threads :
        chk[t].stale = "expired" =>
            /\ pc[t] = "post" \/ fetchId[t] = chk[t].before + 1
            /\ pc[t] # "post" => fetches = chk[t].before + 1
            /\ (pc[t] = "done" /\ op[t] = "get_token" /\ result[t].kind = "return") =>
                   /\ result[t].token = resp[t].access_token
                   /\ tokenSrc = fetchId[t]

\* C2 witness: an expired token "tok1" was replaced and the call returned the
\* different token of the new response
C2_Witness ==
    /\ chk[1].stale = "expired" /\ pre[1][1] = "tok1"
    /\ pc[1] = "done" /\ op[1] = "get_token"
    /\ result[1] = Returned("tok2") /\ resp[1].access_token = "tok2"

\* C3: a fetch answered by a network error, a non-2xx status, an unparsable body or
\* a body without access_token ends the call with an exception and the stored pair
\* is the pair the call found, the Empty pair (None, 0) included.
C3_FailedFetchLeavesCache ==
    \A t \in Threads :
        resp[t] \in FailedResponses =>
            /\ pc[t] = "done"
            /\ result[t].kind = "raise"
            /\ <<access_token, token_expiry>> = pre[t]

\* C3 witness: a fetch failed with HTTP 500 over a cached pair, which is still there
C3_Witness ==
    /\ resp[1].status_code = 500 /\ pc[1] = "done"
    /\ pre[1][1] = "tok1" /\ access_token = "tok1" /\ token_expiry = pre[1][2]

\* C4: concurrent get_token calls that find the cache empty or stale are serialized:
\* no two callers are inside the fetch at the same time, so one stale cache costs
\* one provider request.
C4_FetchSerialized ==
    \A t1, t2 \in Threads : t1 # t2 => ~(InFetch(t1) /\ InFetch(t2))

\* C5: a get_token call that found the cache valid and is about to return the
\* stored token returns a token written by the same fetch as the expiry it checked.
C5_PairFromOneFetch ==
    \A t \in Threads :
        (pc[t] = "return" /\ chk[t].stale = "no") => tokenSrc = chk[t].expirySrc

\* C6: at the moment get_token returns (line 62) the clock is before the stored
\* effective expiry.
C6_ReturnedTokenInWindow ==
    \A t \in Threads : pc[t] = "return" => now < token_expiry

\* C7: line 51 stores clock + expires_in - 60, with 3600 for an omitted expires_in,
\* and the check of line 60 fetches exactly when the clock has reached the stored
\* expiry: with expires_in = 120 stored at 0, a check at 59 returns the cached token
\* without a fetch and a check at 60 fetches.
C7_ExpiryArithmetic ==
    [][\A t \in Threads :
        /\ (pc[t] = "store_expiry" /\ pc'[t] = "return") =>
               token_expiry' =
                   now + (IF resp[t].ei_kind = "absent" THEN 3600 ELSE resp[t].expires_in) - 60
        /\ (pc[t] = "check_expiry" /\ pc'[t] # "check_expiry") =>
               /\ now >= token_expiry => pc'[t] = "post"
               /\ now < token_expiry => pc'[t] = "return" /\ fetches' = fetches
               /\ stored = [at |-> 0, ei_kind |-> "int", expires_in |-> 120] =>
                      /\ now = 59 => pc'[t] = "return" /\ fetches' = fetches
                      /\ now = 60 => pc'[t] = "post"
      ]_vars

\* C7 witness: expires_in = 120 was stored at 0 and a call at 60 is about to refetch
C7_Witness ==
    /\ stored = [at |-> 0, ei_kind |-> "int", expires_in |-> 120]
    /\ token_expiry = 60 /\ now = 60
    /\ pc[1] = "post" /\ chk[1].stale = "expired"

\* C8: a make_secure_request call whose token fetch failed has ended with the
\* authentication failure and sent no outbound request; an outbound request
\* carries a token the provider issued.
C8_NoRequestWithoutToken ==
    \A t \in Threads :
        op[t] = "make_secure_request" =>
            /\ FetchFailed(t) =>
                   pc[t] = "done" /\ result[t] = Raised("RuntimeError") /\ sent[t].count = 0
            /\ sent[t].count > 0 =>
                   /\ ~FetchFailed(t)
                   /\ \E tok \in Tokens : sent[t].headers["Authorization"] = "Bearer " \o tok

\* C8 witness: the provider answered HTTP 500 and the call ended without a request
C8_Witness ==
    /\ op[1] = "make_secure_request" /\ pc[1] = "done"
    /\ resp[1].status_code = 500
    /\ result[1] = Raised("RuntimeError") /\ sent[1].count = 0

\* C9: the outbound request of make_secure_request has Authorization equal to
\* "Bearer " and the token most recently fetched by the manager, whatever the
\* caller passed as headers.
C9_BearerOfLatestToken ==
    \A t \in Threads :
        sent[t].count > 0 =>
            /\ "Authorization" \in DOMAIN sent[t].headers
            /\ sent[t].latest \in Tokens
            /\ sent[t].headers["Authorization"] = "Bearer " \o sent[t].latest

\* C9 witness: the caller passed its own Authorization value and the request went
\* out with the bearer token in its place
C9_Witness ==
    /\ sent[1].count = 1
    /\ args[1].headers.given /\ "Authorization" \in DOMAIN args[1].headers.map
    /\ args[1].headers.map["Authorization"] = "Basic abc"
    /\ sent[1].headers["Authorization"] = "Bearer tok2"

\* C10: a failed token fetch ends make_secure_request with RuntimeError, never with
\* the RequestException of the transport; RequestException ends it only after the
\* token was obtained and the request carrying it was sent.
C10_ErrorKindsDistinct ==
    \A t \in Threads :
        (op[t] = "make_secure_request" /\ pc[t] = "done") =>
            /\ FetchFailed(t) => result[t].exc = "RuntimeError"
            /\ result[t].exc = "RequestException" =>
                   /\ ~FetchFailed(t)
                   /\ sent[t].count = 1
                   /\ \E tok \in Tokens : sent[t].headers["Authorization"] = "Bearer " \o tok
            /\ result[t].exc = "RuntimeError" => FetchFailed(t) /\ sent[t].count = 0

\* C10 witness: the token was obtained and the outbound call failed in transport
C10_Witness ==
    /\ op[1] = "make_secure_request" /\ pc[1] = "done"
    /\ result[1] = Raised("RequestException") /\ sent[1].count = 1
    /\ fetchId[1] # 0

\* C11: a make_secure_request call whose outbound request completed at transport
\* level has returned the response with the status code the server sent, whether
\* 2xx, 4xx or 5xx; it raises after sending only when the transport failed.
C11_ResponseReturnedForEveryStatus ==
    \A t \in Threads :
        (op[t] = "make_secure_request" /\ pc[t] = "done" /\ sent[t].count > 0) =>
            /\ sent[t].outcome.kind = "response" =>
                   /\ result[t].kind = "return"
                   /\ result[t].status_code = sent[t].outcome.status_code
            /\ result[t].kind = "raise" => sent[t].outcome.kind = "error"

\* C11 witness: a 500 response was returned to the caller
C11_Witness ==
    /\ op[1] = "make_secure_request" /\ pc[1] = "done"
    /\ sent[1].outcome.kind = "response" /\ sent[1].outcome.status_code = 500
    /\ result[1] = Responded(500)

\* C12: the content-type of the outbound request, header names compared as HTTP
\* compares them (without regard to case): with a JSON body and no content-type
\* from the caller it is application/json; with a content-type from the caller it
\* is the caller's and nothing else; without a body no content-type is added.
C12_ContentType ==
    \A t \in Threads :
        sent[t].count > 0 =>
            LET IsContentType(n) == n \in {"Content-Type", "content-type"}
                given == args[t].headers.map
                explicit == {given[n] : n \in {x \in DOMAIN given : IsContentType(x)}}
                out == sent[t].headers
                outbound == {out[n] : n \in {x \in DOMAIN out : IsContentType(x)}}
            IN  /\ (PayloadTruthy(args[t].payload) /\ explicit = {}) =>
                       outbound = {"application/json"}
                /\ explicit # {} => outbound = explicit
                /\ args[t].payload = "none" => outbound = explicit

\* C13: no retries. Calls made one after the other: a call has issued at most
\* one provider request, and none when it found the cache valid; it has sent at
\* most one outbound request; once its fetch has failed the call is over with an
\* error and nothing was sent; once its outbound request has failed at transport
\* level the call is over with that error.
C13_NoRetries ==
    \A t \in Threads :
        LET issued == IF chk[t].stale = "unknown" THEN 0 ELSE fetches - chk[t].before
        IN  /\ issued <= 1
            /\ chk[t].stale = "no" => issued = 0
            /\ issued = 1 <=> fetchId[t] # 0
            /\ sent[t].count <= 1
            /\ FetchFailed(t) =>
                   /\ pc[t] = "done" /\ result[t].kind = "raise"
                   /\ issued = 1 /\ sent[t].count = 0
            /\ sent[t].outcome.kind = "error" =>
                   /\ pc[t] = "done" /\ result[t] = Raised("RequestException")
                   /\ sent[t].count = 1

\* C13 witness: the second call's only fetch failed and ended the call at once
C13_Witness ==
    /\ pc[1] = "done" /\ op[1] = "make_secure_request"
    /\ resp[1] \in FailedResponses
    /\ fetches = 2 /\ chk[1].before = 1 /\ fetchId[1] = 2
    /\ result[1] = Raised("RuntimeError") /\ sent[1].count = 0

\* C14: the cache follows Empty -> Valid -> Expired -> Valid: a step that changes
\* the stored token or expiry is a store of a fetch that succeeds (a token
\* response whose lifetime can be added to the clock), made by a get_token call
\* that found the cache empty or stale; a valid cache becomes expired only by a
\* step of the clock; a stored token is never replaced by nothing.
C14_Lifecycle ==
    [][/\ <<access_token, token_expiry>>' # <<access_token, token_expiry>> =>
              \E t \in Threads :
                  /\ pc[t] \in {"store_token", "store_expiry"} /\ pc'[t] # pc[t]
                  /\ chk[t].stale \in {"empty", "expired"}
                  /\ resp[t] \in TokenResponses /\ resp[t].ei_kind # "str"
       /\ (InWindow /\ ~InWindow') =>
              /\ now' > now
              /\ <<access_token, token_expiry>>' = <<access_token, token_expiry>>
       /\ ~Falsy(access_token) => ~Falsy(access_token')]_vars

\* C15: whenever no fetch is in progress the stored token and the stored expiry
\* were written by the same fetch (or both by the constructor): a fetch attempt
\* has replaced both or neither, whatever the provider's response was.
C15_FetchAllOrNothing ==
    (\A t \in Threads : ~InFetch(t)) => tokenSrc = expirySrc

\* C16: an accessor call that is over has returned, never raised, and it has
\* returned None whenever its token fetch failed (authentication error), its
\* outbound request failed at transport level, or the response body could not be
\* parsed or did not have the shape of a JSON object.
C16_AccessorReturnsNone ==
    \A t \in Threads :
        (op[t] \in Accessors /\ pc[t] = "done") =>
            /\ result[t].kind = "return"
            /\ ( \/ FetchFailed(t)
                 \/ sent[t].outcome.kind = "error"
                 \/ sent[t].outcome.body \in {"unparsable", "array"} )
                   => result[t] = ReturnedValue(None)
            /\ result[t] # ReturnedValue(None) =>
                   /\ result[t] = ReturnedValue("data")
                   /\ sent[t].count = 1 /\ sent[t].outcome.body = "object"

\* C16 witness: get_events got an authentication error and returned None
C16_Witness ==
    /\ op[1] = "get_events" /\ pc[1] = "done"
    /\ FetchFailed(1) /\ sent[1].count = 0
    /\ result[1] = ReturnedValue(None)

\* C18: after a make_secure_request call the headers mapping the caller passed
\* holds what it held when the call was made.
C18_CallerHeadersUntouched ==
    \A t \in Threads :
        (op[t] = "make_secure_request" /\ pc[t] = "done") =>
            callerHeaders[t] = args[t].headers

\* the provider has answered the fetch of the current call with a token whose
\* lifetime is usable (a number above the safety buffer)
Answered ==
    /\ resp[1] \in TokenResponses
    /\ resp[1].ei_kind # "str" /\ ExpiresIn(resp[1]) > ExpiryBuffer

\* C17: a fetch failure is not latched. Every error of get_token comes from a
\* provider request that this very call issued and that failed, never from an
\* earlier call; and from a failed call on, if the provider ever answers a fetch
\* successfully, the cache becomes valid with the token of that answer and the
\* call returns it.
C17_FailureNotLatched ==
    /\ [](\A t \in Threads :
            (op[t] = "get_token" /\ pc[t] = "done" /\ result[t].kind = "raise") =>
                /\ fetchId[t] = chk[t].before + 1
                /\ FetchFailed(t))
    /\ []((pc[1] = "done" /\ result[1].kind = "raise") =>
            ( \/ []~Answered
              \/ /\ <>(Answered /\ InWindow /\ access_token = resp[1].access_token)
                 /\ <>(Answered /\ pc[1] = "done"
                       /\ result[1] = Returned(resp[1].access_token)) ))

\* C17 witness: the first call failed on the empty cache, the second call found
\* it still empty, fetched again, was answered, and returned the token while the
\* cache is valid
C17_Witness ==
    /\ pc[1] = "done" /\ op[1] = "get_token"
    /\ chk[1].stale = "empty" /\ chk[1].before = 1 /\ fetchId[1] = 2
    /\ Answered /\ InWindow
    /\ result[1] = Returned(access_token)

TypeOK ==
    /\ access_token \in Tokens \cup {None}
    /\ token_expiry \in Int
    /\ fetches \in 0..MaxFetches
    /\ \A t \in Threads : pc[t] \in {"idle", "check_token", "check_expiry", "post",
                                     "store_token", "store_expiry", "return", "send",
                                     "parse", "done"}
====
